---- MODULE Spec2Model ----
(***************************************************************************)
(* A model of img-vwr (src/main.rs): the start-up of main() (monitor       *)
(* query, scale selection, window extent, backbuffer creation, RGB -> RGBA *)
(* conversion) and the event callback passed to event_loop.run.            *)
(*                                                                         *)
(* Three specifications share the actions:                                 *)
(*   Spec         the whole program on small images and monitors;          *)
(*   SpecLayout   lines 48-62 alone, on extents that include the spec's    *)
(*                examples and the values around 2^24 where the u32 -> f32 *)
(*                cast of calc_scale stops being exact;                    *)
(*   SpecConvert  the conversion loop of lines 77-85 on arbitrary source   *)
(*                and destination buffers.                                 *)
(***************************************************************************)
EXTENDS Integers, Sequences, FiniteSets

VARIABLES
    pc,                 \* position in main()
    err,                \* the RvuError main() returned with, or "none"
    image,              \* the decoded image: [width, height, rgb8]
    image_bytes,        \* image.as_rgb8().as_flat_samples().as_slice()
    screen_size,        \* primary_monitor.size()
    max_screen_size,    \* line 52
    horz_scale,         \* line 58 (0: not computed yet)
    vert_scale,         \* line 59 (0: not computed yet)
    scale,              \* line 60 (0: not computed yet)
    window_inner_size,  \* line 62
    pixels,             \* the Pixels object: backbuffer extent, frame, surface extent
    i,                  \* number of (chunk, chunk) pairs the zip has yielded
    control_flow,       \* *control_flow as the callback left it
    event,              \* the event the callback handled last
    conversions,        \* completed runs of the conversion loop
    prior_frame,        \* the frame as it was before the first conversion
    first_frame         \* the frame as the first conversion left it

vars == <<pc, err, image, image_bytes, screen_size, max_screen_size, horz_scale,
          vert_scale, scale, window_inner_size, pixels, i, control_flow, event,
          conversions, prior_frame, first_frame>>

-----------------------------------------------------------------------------
(* Bounds of the model *)

\* small extents: monitors 0..MaxSmall, images 1..MaxSmall (SpecLayout)
MaxSmall == 6
\* extents 2^24 - 1 .. 2^24 - 1 + LargeSpan (SpecLayout)
LargeSpan == 3
\* monitor extents 0..MaxScreen (Spec)
MaxScreen == 4
\* image extents 1..MaxImageDim with at most MaxPixels pixels (Spec)
MaxImageDim == 3
MaxPixels == 3
\* buffer lengths of SpecConvert
MaxSrcLen == 6
MaxDstLen == 8
\* runs of the conversion loop in SpecConvert
MaxRuns == 2

-----------------------------------------------------------------------------
(* Program constants *)

SCREEN_PERCENT == 90

\* u32::MAX is 4294967295, which TLC's 32-bit integers cannot hold.  The model
\* writes it as the largest integer TLC has.  Every other u32 of the model is
\* below 2^26, so each comparison, maximum and quotient taken with this value
\* has the result it has with 4294967295.
U32_MAX == 2147483647

\* f32 has a 24-bit significand
F32_MANTISSA_DIGITS == 24

-----------------------------------------------------------------------------
(* f32 arithmetic, as `as f32`, `/`, `.ceil()` and `as u32` compute it      *)
(* (IEEE 754 binary32, round to nearest, ties to even).  A finite f32 is    *)
(* [kind |-> "fin", m, x] with value m * 2^x, where m = 0 or                *)
(* 2^23 <= m < 2^24.                                                        *)

RECURSIVE Pow2(_)
Pow2(n) == IF n <= 0 THEN 1 ELSE 2 * Pow2(n - 1)

RECURSIVE Log2Floor(_)
Log2Floor(n) == IF n <= 1 THEN 0 ELSE 1 + Log2Floor(n \div 2)

F32Fin(m, x) == [kind |-> "fin", m |-> m, x |-> x]
F32Inf == [kind |-> "inf", m |-> 0, x |-> 0]
F32NaN == [kind |-> "nan", m |-> 0, x |-> 0]

\* q / unit rounded to an integer, ties to even; rem is what q left over
RoundHalfEven(q, rem, unit) ==
    IF 2 * rem < unit THEN q
    ELSE IF 2 * rem > unit THEN q + 1
    ELSE IF q % 2 = 0 THEN q ELSE q + 1

\* a significand that rounding carried to 2^24 is renormalised
F32Normal(m, x) ==
    IF m = Pow2(F32_MANTISSA_DIGITS)
    THEN F32Fin(Pow2(F32_MANTISSA_DIGITS - 1), x + 1)
    ELSE F32Fin(m, x)

\* `n as f32` for a u32 n
U32ToF32(n) ==
    IF n = 0 THEN F32Fin(0, 0)
    ELSE LET e == Log2Floor(n)
             s == e - (F32_MANTISSA_DIGITS - 1)
         IN  IF s <= 0
             THEN F32Fin(n * Pow2(-s), s)
             ELSE LET unit == Pow2(s)
                  IN  F32Normal(RoundHalfEven(n \div unit, n % unit, unit), s)

\* n more quotient bits of r / d (r < d), by long division: <<bits, remainder>>
RECURSIVE LongDiv(_, _, _, _)
LongDiv(r, d, n, acc) ==
    IF n = 0 THEN <<acc, r>>
    ELSE LET r2 == 2 * r
             bit == IF r2 >= d THEN 1 ELSE 0
         IN  LongDiv(r2 - bit * d, d, n - 1, 2 * acc + bit)

\* a / b on f32
F32Div(a, b) ==
    IF a.kind = "nan" \/ b.kind = "nan" THEN F32NaN
    ELSE IF a.kind = "inf" THEN (IF b.kind = "inf" THEN F32NaN ELSE F32Inf)
    ELSE IF b.kind = "inf" THEN F32Fin(0, 0)
    ELSE IF b.m = 0 THEN (IF a.m = 0 THEN F32NaN ELSE F32Inf)
    ELSE IF a.m = 0 THEN F32Fin(0, 0)
    ELSE IF a.m >= b.m
         THEN \* quotient of the significands in [1, 2): 1 and 23 more bits
              LET d == LongDiv(a.m - b.m, b.m, F32_MANTISSA_DIGITS - 1, 1)
              IN  F32Normal(RoundHalfEven(d[1], d[2], b.m),
                            a.x - b.x - (F32_MANTISSA_DIGITS - 1))
         ELSE \* quotient of the significands in (1/2, 1): 24 bits
              LET d == LongDiv(a.m, b.m, F32_MANTISSA_DIGITS, 0)
              IN  F32Normal(RoundHalfEven(d[1], d[2], b.m),
                            a.x - b.x - F32_MANTISSA_DIGITS)

\* v.ceil() on f32 (v >= 0)
F32Ceil(v) ==
    IF v.kind # "fin" \/ v.m = 0 \/ v.x >= 0 THEN v
    ELSE IF -v.x >= F32_MANTISSA_DIGITS THEN U32ToF32(1)
    ELSE U32ToF32((v.m + Pow2(-v.x) - 1) \div Pow2(-v.x))

\* `v as u32` (v >= 0): NaN is 0, values past u32::MAX saturate
F32ToU32(v) ==
    IF v.kind = "nan" THEN 0
    ELSE IF v.kind = "inf" THEN U32_MAX
    ELSE IF v.m = 0 THEN 0
    ELSE IF v.x >= 32 - (F32_MANTISSA_DIGITS - 1) THEN U32_MAX
    ELSE IF v.x >= 0 THEN v.m * Pow2(v.x)
    ELSE v.m \div Pow2(-v.x)

-----------------------------------------------------------------------------
(* fn calc_scale, lines 123-129 *)

\* calc_scale with `%` written for `/` (a NaN remainder casts to 0)
calc_scale_rem(max_size, current_size) ==
    IF max_size >= current_size
    THEN 1
    ELSE IF max_size = 0 THEN 0
    ELSE F32ToU32(F32Ceil(U32ToF32(current_size % max_size)))

calc_scale(max_size, current_size) ==
    IF max_size >= current_size
    THEN 1
    ELSE F32ToU32(F32Ceil(F32Div(U32ToF32(current_size), U32ToF32(max_size))))

max(a, b) == IF a >= b THEN a ELSE b

-----------------------------------------------------------------------------
(* Values *)

NoPixels == [width |-> 0, height |-> 0, frame |-> <<>>, surface |-> <<0, 0>>]
NoEvent == [kind |-> "None", window_id |-> "none", size |-> <<0, 0>>,
            state |-> "None", key |-> "None"]

\* window.id() of the viewer's window, and the id of some other window
OwnWindow == "viewer"
OtherWindow == "other"

RECURSIVE Zeros(_)
Zeros(n) == IF n <= 0 THEN <<>> ELSE Append(Zeros(n - 1), 0)

\* all sequences over S of length at most n
RECURSIVE SeqsUpTo(_, _)
SeqsUpTo(S, n) ==
    IF n = 0 THEN {<<>>}
    ELSE LET shorter == SeqsUpTo(S, n - 1)
         IN  shorter \cup {Append(q, b) : q \in {t \in shorter : Len(t) = n - 1}, b \in S}

-----------------------------------------------------------------------------
(* main(), lines 46-62: decode, monitor, scale selection, window extent *)

\* line 46: open(..)?.decode()? fails with IoError or ImageError
DecodeFails ==
    /\ pc = "decode"
    /\ \E e \in {"IoError", "ImageError"} : err' = e
    /\ pc' = "returned"
    /\ UNCHANGED <<image, image_bytes, screen_size, max_screen_size, horz_scale,
                   vert_scale, scale, window_inner_size, pixels, i, control_flow,
                   event, conversions, prior_frame, first_frame>>

Decode ==
    /\ pc = "decode"
    /\ pc' = "monitor"
    /\ UNCHANGED <<err, image, image_bytes, screen_size, max_screen_size, horz_scale,
                   vert_scale, scale, window_inner_size, pixels, i, control_flow,
                   event, conversions, prior_frame, first_frame>>

\* lines 48-50: primary_monitor() is None
NoPrimaryMonitor ==
    /\ pc = "monitor"
    /\ err' = "NoPrimaryMonitor"
    /\ pc' = "returned"
    /\ UNCHANGED <<image, image_bytes, screen_size, max_screen_size, horz_scale,
                   vert_scale, scale, window_inner_size, pixels, i, control_flow,
                   event, conversions, prior_frame, first_frame>>

\* lines 52-55 (u32 arithmetic; the model's monitors stay below the
\* 47721859 from which size * 90 overflows)
MaxScreenSize(size) ==
    <<(size[1] * SCREEN_PERCENT) \div 100, (size[2] * SCREEN_PERCENT) \div 100>>

Monitor ==
    /\ pc = "monitor"
    /\ max_screen_size' = MaxScreenSize(screen_size)
    /\ pc' = "horz"
    /\ UNCHANGED <<err, image, image_bytes, screen_size, horz_scale, vert_scale,
                   scale, window_inner_size, pixels, i, control_flow, event,
                   conversions, prior_frame, first_frame>>

\* line 58
CalcHorz ==
    /\ pc = "horz"
    /\ horz_scale' = calc_scale(max_screen_size[1], image.width)
    /\ pc' = "vert"
    /\ UNCHANGED <<err, image, image_bytes, screen_size, max_screen_size, vert_scale,
                   scale, window_inner_size, pixels, i, control_flow, event,
                   conversions, prior_frame, first_frame>>

\* line 59
CalcVert ==
    /\ pc = "vert"
    /\ vert_scale' = calc_scale(max_screen_size[2], image.height)
    /\ pc' = "size"
    /\ UNCHANGED <<err, image, image_bytes, screen_size, max_screen_size, horz_scale,
                   scale, window_inner_size, pixels, i, control_flow, event,
                   conversions, prior_frame, first_frame>>

\* line 60
UniformScale(horz, vert) == max(horz, vert)

\* line 62
WindowInnerSize(img, factor) == <<img.width \div factor, img.height \div factor>>

\* lines 60-62
CalcWindow ==
    /\ pc = "size"
    /\ scale' = UniformScale(horz_scale, vert_scale)
    /\ window_inner_size' = WindowInnerSize(image, scale')
    /\ pc' = "window"
    /\ UNCHANGED <<err, image, image_bytes, screen_size, max_screen_size, horz_scale,
                   vert_scale, pixels, i, control_flow, event, conversions,
                   prior_frame, first_frame>>

Layout == NoPrimaryMonitor \/ Monitor \/ CalcHorz \/ CalcVert \/ CalcWindow

-----------------------------------------------------------------------------
(* SpecLayout: lines 48-62 on the spec's examples and around 2^24 *)

F32Exact == Pow2(F32_MANTISSA_DIGITS)

\* image extents: small ones, the spec's examples, and those around 2^24
LayoutImageExtents ==
    (1..MaxSmall) \cup {900, 1001, 1900, 3000}
                  \cup {F32Exact - 1 + k : k \in 0..LargeSpan}

\* monitor extents: small ones, those whose 90 percent are the spec's bounds
\* 900 and 1000, and those whose 90 percent are 2^24 - 1 and 2^24
LayoutScreenExtents ==
    (0..MaxSmall) \cup {1000, 1112} \cup {18641351, 18641352}

InitLayout ==
    /\ pc = "monitor"
    /\ err = "none"
    /\ image \in [width : LayoutImageExtents, height : LayoutImageExtents, rgb8 : {TRUE}]
    /\ image_bytes = <<>>
    /\ screen_size \in LayoutScreenExtents \X LayoutScreenExtents
    /\ max_screen_size = <<0, 0>>
    /\ horz_scale = 0
    /\ vert_scale = 0
    /\ scale = 0
    /\ window_inner_size = <<0, 0>>
    /\ pixels = NoPixels
    /\ i = 0
    /\ control_flow = "Poll"
    /\ event = NoEvent
    /\ conversions = 0
    /\ prior_frame = <<>>
    /\ first_frame = <<>>

NextLayout == Layout

SpecLayout == InitLayout /\ [][NextLayout]_vars

-----------------------------------------------------------------------------
(* main(), lines 64-73: window, surface, backbuffer, RGB8 view of the image *)

\* lines 64-67: build(..)? fails with an OsError
WindowFails ==
    /\ pc = "window"
    /\ err' = "WindowError"
    /\ pc' = "returned"
    /\ UNCHANGED <<image, image_bytes, screen_size, max_screen_size, horz_scale,
                   vert_scale, scale, window_inner_size, pixels, i, control_flow,
                   event, conversions, prior_frame, first_frame>>

Window ==
    /\ pc = "window"
    /\ pc' = "surface"
    /\ UNCHANGED <<err, image, image_bytes, screen_size, max_screen_size, horz_scale,
                   vert_scale, scale, window_inner_size, pixels, i, control_flow,
                   event, conversions, prior_frame, first_frame>>

\* line 69: SurfaceTexture::new asserts width > 0 and height > 0
SurfacePanics ==
    /\ pc = "surface"
    /\ (window_inner_size[1] = 0 \/ window_inner_size[2] = 0)
    /\ pc' = "panicked"
    /\ UNCHANGED <<err, image, image_bytes, screen_size, max_screen_size, horz_scale,
                   vert_scale, scale, window_inner_size, pixels, i, control_flow,
                   event, conversions, prior_frame, first_frame>>

\* line 70: Pixels::new(..)? fails with a pixels::Error
PixelsFails ==
    /\ pc = "surface"
    /\ window_inner_size[1] > 0 /\ window_inner_size[2] > 0
    /\ err' = "PixelError"
    /\ pc' = "returned"
    /\ UNCHANGED <<image, image_bytes, screen_size, max_screen_size, horz_scale,
                   vert_scale, scale, window_inner_size, pixels, i, control_flow,
                   event, conversions, prior_frame, first_frame>>

\* lines 69-70: a backbuffer of the image's extent, 4 zeroed bytes a pixel,
\* on a surface of the window's extent
NewPixels(img, surface) ==
    [width |-> img.width, height |-> img.height,
     frame |-> Zeros(img.width * img.height * 4), surface |-> surface]

Surface ==
    /\ pc = "surface"
    /\ window_inner_size[1] > 0 /\ window_inner_size[2] > 0
    /\ pixels' = NewPixels(image, window_inner_size)
    /\ prior_frame' = pixels'.frame
    /\ pc' = "rgb8"
    /\ UNCHANGED <<err, image, image_bytes, screen_size, max_screen_size, horz_scale,
                   vert_scale, scale, window_inner_size, i, control_flow, event,
                   conversions, first_frame>>

\* line 72: as_rgb8() is None for an image that is not 8-bit RGB, and unwrap() panics
Rgb8Panics ==
    /\ pc = "rgb8"
    /\ ~image.rgb8
    /\ pc' = "panicked"
    /\ UNCHANGED <<err, image, image_bytes, screen_size, max_screen_size, horz_scale,
                   vert_scale, scale, window_inner_size, pixels, i, control_flow,
                   event, conversions, prior_frame, first_frame>>

\* lines 72-75
Rgb8 ==
    /\ pc = "rgb8"
    /\ image.rgb8
    /\ i' = 0
    /\ pc' = "convert"
    /\ UNCHANGED <<err, image, image_bytes, screen_size, max_screen_size, horz_scale,
                   vert_scale, scale, window_inner_size, pixels, control_flow, event,
                   conversions, prior_frame, first_frame>>

-----------------------------------------------------------------------------
(* main(), lines 77-85: the conversion loop *)

\* the k-th chunk (from 0) of chunks_exact(size)
Chunk(bytes, size, k) == SubSeq(bytes, size * k + 1, size * k + size)

\* a chunk iterator that ends one chunk early
HasChunkOffByOne(bytes, size, k) == size * (k + 2) <= Len(bytes)

\* chunks_exact(size) has a k-th chunk (from 0)
HasChunk(bytes, size, k) == size * (k + 1) <= Len(bytes)

\* the closure writing the channels in reverse order (BGR)
ConvertPixelBGR(image_pixel, pixel) ==
    [[[[pixel EXCEPT ![1] = image_pixel[3]]
               EXCEPT ![2] = image_pixel[2]]
               EXCEPT ![3] = image_pixel[1]]
               EXCEPT ![4] = 255]

\* the closure inverting the alpha it finds (pixel[3] ^= 0xff) instead of setting it
ConvertPixelXorAlpha(image_pixel, pixel) ==
    [[[[pixel EXCEPT ![1] = image_pixel[1]]
               EXCEPT ![2] = image_pixel[2]]
               EXCEPT ![3] = image_pixel[3]]
               EXCEPT ![4] = 255 - pixel[4]]

\* lines 80-85: the closure's writes to the destination chunk
ConvertPixel(image_pixel, pixel) ==
    [[[[pixel EXCEPT ![1] = image_pixel[1]]
               EXCEPT ![2] = image_pixel[2]]
               EXCEPT ![3] = image_pixel[3]]
               EXCEPT ![4] = 255]

\* the frame with its k-th 4-byte chunk (from 0) replaced
WithChunk(frame, k, chunk) ==
    [j \in 1..Len(frame) |->
        IF 4 * k < j /\ j <= 4 * k + 4 THEN chunk[j - 4 * k] ELSE frame[j]]

\* one step of zip(..).for_each(..): both iterators yield a chunk
ConvertStep ==
    /\ pc = "convert"
    /\ HasChunk(image_bytes, 3, i) /\ HasChunk(pixels.frame, 4, i)
    /\ pixels' = [pixels EXCEPT !.frame =
                    WithChunk(pixels.frame, i,
                              ConvertPixel(Chunk(image_bytes, 3, i),
                                           Chunk(pixels.frame, 4, i)))]
    /\ i' = i + 1
    /\ UNCHANGED <<pc, err, image, image_bytes, screen_size, max_screen_size,
                   horz_scale, vert_scale, scale, window_inner_size, control_flow,
                   event, conversions, prior_frame, first_frame>>

\* the zip ends when either iterator has no whole chunk left; lines 87-93
ConvertDone ==
    /\ pc = "convert"
    /\ ~(HasChunk(image_bytes, 3, i) /\ HasChunk(pixels.frame, 4, i))
    /\ conversions' = conversions + 1
    /\ first_frame' = IF conversions = 0 THEN pixels.frame ELSE first_frame
    /\ pc' = "loop"
    /\ UNCHANGED <<err, image, image_bytes, screen_size, max_screen_size, horz_scale,
                   vert_scale, scale, window_inner_size, pixels, i, control_flow,
                   event, prior_frame>>

-----------------------------------------------------------------------------
(* main(), lines 93-120: the event callback; fn resize, lines 131-133 *)

WindowEventKinds ==
    {"Resized", "CloseRequested", "KeyboardInput", "ScaleFactorChanged", "Focused"}

\* extents a Resized or ScaleFactorChanged event carries
ResizeExtents == {<<1, 1>>, <<2, 3>>}

Events ==
    [kind : {"Resized", "ScaleFactorChanged"}, window_id : {OwnWindow, OtherWindow},
     size : ResizeExtents, state : {"None"}, key : {"None"}]
    \cup
    [kind : {"CloseRequested", "Focused"}, window_id : {OwnWindow, OtherWindow},
     size : {<<0, 0>>}, state : {"None"}, key : {"None"}]
    \cup
    [kind : {"KeyboardInput"}, window_id : {OwnWindow, OtherWindow},
     size : {<<0, 0>>}, state : {"Pressed", "Released"}, key : {"Escape", "Q", "None"}]
    \cup
    [kind : {"RedrawRequested", "MainEventsCleared"}, window_id : {OwnWindow},
     size : {<<0, 0>>}, state : {"None"}, key : {"None"}]

\* a resize that also reallocates the backbuffer
resize_clearing(px, size) ==
    [px EXCEPT !.surface = size, !.frame = Zeros(Len(px.frame))]

\* lines 131-133: pixels.resize_surface(size.width, size.height)
resize(px, size) == [px EXCEPT !.surface = size]

\* the callback without the `if window_id == window.id()` guard
CallbackAnyWindow(e, px) ==
    IF e.kind \in WindowEventKinds
    THEN CASE e.kind = "Resized" ->
                [control_flow |-> "Wait", pixels |-> [px EXCEPT !.surface = e.size]]
           [] e.kind = "CloseRequested"
              \/ (e.kind = "KeyboardInput" /\ e.state = "Pressed" /\ e.key = "Escape") ->
                [control_flow |-> "Exit", pixels |-> px]
           [] e.kind = "ScaleFactorChanged" ->
                [control_flow |-> "Wait", pixels |-> [px EXCEPT !.surface = e.size]]
           [] OTHER ->
                [control_flow |-> "Wait", pixels |-> px]
    ELSE [control_flow |-> "Wait", pixels |-> px]

\* lines 94-119: the control flow and the Pixels the callback leaves
Callback(e, px) ==
    IF e.kind \in WindowEventKinds /\ e.window_id = OwnWindow
    THEN CASE e.kind = "Resized" ->
                [control_flow |-> "Wait", pixels |-> resize(px, e.size)]
           [] e.kind = "CloseRequested"
              \/ (e.kind = "KeyboardInput" /\ e.state = "Pressed" /\ e.key = "Escape") ->
                [control_flow |-> "Exit", pixels |-> px]
           [] e.kind = "ScaleFactorChanged" ->
                [control_flow |-> "Wait", pixels |-> resize(px, e.size)]
           [] OTHER ->
                [control_flow |-> "Wait", pixels |-> px]
    ELSE \* RedrawRequested renders the frame and changes nothing
         [control_flow |-> "Wait", pixels |-> px]

\* the event loop calls the callback with an event, and ends on Exit
HandleEvent(e) ==
    /\ pc = "loop"
    /\ event' = e
    /\ control_flow' = Callback(e, pixels).control_flow
    /\ pixels' = Callback(e, pixels).pixels
    /\ pc' = IF control_flow' = "Exit" THEN "exited" ELSE "loop"
    /\ UNCHANGED <<err, image, image_bytes, screen_size, max_screen_size, horz_scale,
                   vert_scale, scale, window_inner_size, i, conversions, prior_frame,
                   first_frame>>

-----------------------------------------------------------------------------
(* Spec: the whole program on small images and monitors *)

\* the bytes of an n-pixel RGB8 image, from a base value
ImageBytes(n, base) == [k \in 1..(3 * n) |-> (base + 37 * k) % 256]

Images ==
    {img \in [width : 1..MaxImageDim, height : 1..MaxImageDim, rgb8 : BOOLEAN] :
        img.width * img.height <= MaxPixels}

Init ==
    /\ pc = "decode"
    /\ err = "none"
    /\ image \in Images
    /\ image_bytes \in
         IF image.rgb8
         THEN {ImageBytes(image.width * image.height, base) : base \in {0, 218}}
         ELSE {<<>>}
    /\ screen_size \in (0..MaxScreen) \X (0..MaxScreen)
    /\ max_screen_size = <<0, 0>>
    /\ horz_scale = 0
    /\ vert_scale = 0
    /\ scale = 0
    /\ window_inner_size = <<0, 0>>
    /\ pixels = NoPixels
    /\ i = 0
    /\ control_flow = "Poll"
    /\ event = NoEvent
    /\ conversions = 0
    /\ prior_frame = <<>>
    /\ first_frame = <<>>

Next ==
    \/ DecodeFails \/ Decode
    \/ Layout
    \/ WindowFails \/ Window
    \/ SurfacePanics \/ PixelsFails \/ Surface
    \/ Rgb8Panics \/ Rgb8
    \/ ConvertStep \/ ConvertDone
    \/ \E e \in Events : HandleEvent(e)

Spec == Init /\ [][Next]_vars

-----------------------------------------------------------------------------
(* SpecConvert: the conversion loop on arbitrary buffers *)

ByteSamples == {7, 255}

InitConvert ==
    /\ pc = "convert"
    /\ err = "none"
    /\ image_bytes \in SeqsUpTo(ByteSamples, MaxSrcLen)
    /\ image = [width |-> Len(image_bytes) \div 3, height |-> 1, rgb8 |-> TRUE]
    /\ \E frame \in SeqsUpTo(ByteSamples, MaxDstLen) :
          /\ pixels = [width |-> Len(frame) \div 4, height |-> 1, frame |-> frame,
                       surface |-> <<1, 1>>]
          /\ prior_frame = frame
    /\ screen_size = <<0, 0>>
    /\ max_screen_size = <<0, 0>>
    /\ horz_scale = 0
    /\ vert_scale = 0
    /\ scale = 0
    /\ window_inner_size = <<0, 0>>
    /\ i = 0
    /\ control_flow = "Poll"
    /\ event = NoEvent
    /\ conversions = 0
    /\ first_frame = <<>>

\* the loop is entered again on the same source and destination
ConvertAgain ==
    /\ pc = "loop"
    /\ conversions < MaxRuns
    /\ i' = 0
    /\ pc' = "convert"
    /\ UNCHANGED <<err, image, image_bytes, screen_size, max_screen_size, horz_scale,
                   vert_scale, scale, window_inner_size, pixels, control_flow, event,
                   conversions, prior_frame, first_frame>>

NextConvert == ConvertStep \/ ConvertDone \/ ConvertAgain

SpecConvert == InitConvert /\ [][NextConvert]_vars

-----------------------------------------------------------------------------
(* Claims about calc_scale and the window extent *)

\* f is the smallest positive integer with f * bound >= native
SmallestFactor(f, bound, native) ==
    /\ f >= 1
    /\ f * bound >= native
    /\ (f - 1) * bound < native
    /\ (native <= bound => f = 1)

\* C1: for positive bound and native, calc_scale(bound, native) is the smallest
\* positive integer f with f * bound >= native (1 whenever native <= bound).
\* Stated of both calls main() makes.
C1_SmallestFactor ==
    /\ (pc \in {"vert", "size", "window"} /\ max_screen_size[1] > 0 /\ image.width > 0)
         => SmallestFactor(horz_scale, max_screen_size[1], image.width)
    /\ (pc \in {"size", "window"} /\ max_screen_size[2] > 0 /\ image.height > 0)
         => SmallestFactor(vert_scale, max_screen_size[2], image.height)

\* C3: for a positive image extent and a positive maximum screen extent, the
\* window extent (w / scale, h / scale) with scale = max of the two factors
\* exceeds the maximum screen extent on neither axis.
C3_WindowFits ==
    (/\ pc = "window"
     /\ image.width > 0 /\ image.height > 0
     /\ max_screen_size[1] > 0 /\ max_screen_size[2] > 0)
    => /\ window_inner_size[1] <= max_screen_size[1]
       /\ window_inner_size[2] <= max_screen_size[2]

\* C5: calc_scale is only ever called with bound > 0 and native > 0.
C5_PositiveArguments ==
    /\ pc = "horz" => (max_screen_size[1] > 0 /\ image.width > 0)
    /\ pc = "vert" => (max_screen_size[2] > 0 /\ image.height > 0)

\* C6: for a fixed positive bound, calc_scale is non-decreasing in native:
\* whenever main() calls it with the same bound for both axes, the axis with
\* the smaller native extent gets the smaller or equal factor.
C6_Monotone ==
    (/\ pc \in {"size", "window"}
     /\ max_screen_size[1] = max_screen_size[2]
     /\ max_screen_size[1] > 0)
    => /\ image.width <= image.height => horz_scale <= vert_scale
       /\ image.height <= image.width => vert_scale <= horz_scale

\* C6 witness: one bound, two natives past 2^24 where the cast rounds, and
\* factors that differ
C6_Witness ==
    /\ pc = "window"
    /\ max_screen_size[1] = max_screen_size[2]
    /\ max_screen_size[1] > 0
    /\ image.width > F32Exact
    /\ image.width < image.height
    /\ horz_scale < vert_scale

\* C8: for a valid image extent and a valid monitor extent (all components
\* > 0), both components of the window extent are > 0.
C8_WindowExtentPositive ==
    (/\ pc = "window"
     /\ image.width > 0 /\ image.height > 0
     /\ screen_size[1] > 0 /\ screen_size[2] > 0)
    => (window_inner_size[1] > 0 /\ window_inner_size[2] > 0)

-----------------------------------------------------------------------------
(* Claims about the conversion loop *)

\* the number of whole pixels source and destination share
SharedPixels(source, destination) ==
    LET s == Len(source) \div 3
        d == Len(destination) \div 4
    IN  IF s <= d THEN s ELSE d

\* C2 (state part): after the loop over a source of 3n bytes and a destination
\* of 4n bytes, destination pixel p is the source's pixel p followed by 255
C2_Converted ==
    (/\ pc = "loop"
     /\ conversions >= 1
     /\ Len(image_bytes) % 3 = 0
     /\ Len(prior_frame) = 4 * (Len(image_bytes) \div 3))
    => /\ Len(pixels.frame) = Len(prior_frame)
       /\ \A p \in 0..((Len(image_bytes) \div 3) - 1) :
             /\ pixels.frame[4 * p + 1] = image_bytes[3 * p + 1]
             /\ pixels.frame[4 * p + 2] = image_bytes[3 * p + 2]
             /\ pixels.frame[4 * p + 3] = image_bytes[3 * p + 3]
             /\ pixels.frame[4 * p + 4] = 255

\* C2: for a source of 3n bytes and a destination of 4n bytes, whatever the
\* destination held, the loop leaves every destination pixel equal to the
\* source pixel plus an alpha of 255, and it never changes the source.
C2_ConversionResult ==
    /\ []C2_Converted
    /\ [][image_bytes' = image_bytes]_vars

\* C2 witness: two pixels converted over a destination whose alpha bytes were
\* not 255 and whose colour bytes differed from the source's
C2_Witness ==
    /\ pc = "loop"
    /\ conversions = 1
    /\ Len(image_bytes) = 6
    /\ Len(prior_frame) = 8
    /\ prior_frame[4] # 255 /\ prior_frame[8] # 255
    /\ prior_frame[1] # image_bytes[1]
    /\ prior_frame[5] # image_bytes[4]

\* C7: a second run of the loop on the same source and destination leaves the
\* destination as the first run left it.
C7_Idempotent ==
    (pc = "loop" /\ conversions >= 2) => pixels.frame = first_frame

\* C7 witness: a second run has ended, and the first run had changed the frame
C7_Witness ==
    /\ pc = "loop"
    /\ conversions = 2
    /\ first_frame # prior_frame
    /\ SharedPixels(image_bytes, prior_frame) = 2

\* source and destination disagree on the pixel count or end in a partial group
Mismatch(source, destination) ==
    \/ Len(source) % 3 # 0
    \/ Len(destination) % 4 # 0
    \/ Len(source) \div 3 # Len(destination) \div 4

\* C9: on a mismatch the loop raises no error and writes exactly the first
\* min(len(source) / 3, len(destination) / 4) destination pixels; every later
\* destination byte keeps its prior value, and excess source groups are ignored.
C9_Truncates ==
    /\ Mismatch(image_bytes, prior_frame) => (pc # "panicked" /\ err = "none")
    /\ (pc = "loop" /\ conversions >= 1 /\ Mismatch(image_bytes, prior_frame))
       => /\ Len(pixels.frame) = Len(prior_frame)
          /\ i = SharedPixels(image_bytes, prior_frame)
          /\ \A j \in 1..Len(pixels.frame) :
                pixels.frame[j] =
                    IF j > 4 * SharedPixels(image_bytes, prior_frame)
                    THEN prior_frame[j]
                    ELSE IF j % 4 = 0 THEN 255
                    ELSE image_bytes[3 * ((j - 1) \div 4) + ((j - 1) % 4) + 1]

\* C9 witness: a source of two groups and a partial one over a destination of
\* one pixel and three more bytes, which keep their values
C9_Witness ==
    /\ pc = "loop"
    /\ conversions = 1
    /\ Len(image_bytes) = 6
    /\ Len(prior_frame) = 7
    /\ prior_frame[4] = 7
    /\ pixels.frame[4] = 255
    /\ prior_frame[5] # image_bytes[4]
    /\ pixels.frame[5] = prior_frame[5]

-----------------------------------------------------------------------------
(* Claims about the event loop *)

\* C4: the conversion has run exactly once when the event loop is entered, and
\* after any sequence of events the backbuffer has the image's extent and the
\* bytes the conversion left, while a Resized or ScaleFactorChanged event for
\* the viewer's window sets the surface extent to the event's.
C4_BackbufferKept ==
    pc \in {"loop", "exited"}
    => /\ conversions = 1
       /\ pixels.width = image.width
       /\ pixels.height = image.height
       /\ pixels.frame = first_frame
       /\ (event.kind \in {"Resized", "ScaleFactorChanged"} /\ event.window_id = OwnWindow)
            => pixels.surface = event.size

\* C4 witness: a resize has changed the surface extent of a converted frame
C4_Witness ==
    /\ pc = "loop"
    /\ event.kind = "Resized"
    /\ pixels.surface # window_inner_size
    /\ pixels.frame # prior_frame

\* the events the claim names: CloseRequested, or Escape pressed, for the
\* viewer's own window
ExitEvent(e) ==
    /\ e.window_id = OwnWindow
    /\ \/ e.kind = "CloseRequested"
       \/ e.kind = "KeyboardInput" /\ e.state = "Pressed" /\ e.key = "Escape"

\* C10: the callback leaves the control flow Exit if and only if the event was
\* CloseRequested or a pressed Escape for the viewer's window; after any other
\* event it leaves Wait.
C10_ExitIffCloseOrEscape ==
    event # NoEvent
    => /\ control_flow = "Exit" <=> ExitEvent(event)
       /\ ~ExitEvent(event) => control_flow = "Wait"

\* C10 witness: Escape was pressed in the viewer's window and the loop ended
C10_Witness ==
    /\ pc = "exited"
    /\ event.kind = "KeyboardInput"
    /\ control_flow = "Exit"

====
